---------------------------- MODULE Spec2Model ----------------------------
(***************************************************************************)
(* feedly-saved-entries-processor: the paginated fetch of saved entries    *)
(* (feedly_client.py), the rule model (config_loader.py, rule_matcher.py), *)
(* the entry processors (entry_processors/) and the processing loop        *)
(* (__main__.py), as one state machine.                                    *)
(*                                                                         *)
(* The generator fetch_saved_entries and the loop process_entries are two  *)
(* coroutines of one thread: gpc is the generator's position, lpc the      *)
(* loop's.  Python absent values (None) are the string "None".  The        *)
(* failures of matchers, processors and requests are Exception subclasses  *)
(* (ValueError, AttributeError, the clients' errors).  world.log holds the *)
(* lines of process_entry and of the processors.                           *)
(*                                                                         *)
(* The configuration file is the tree of its YAML document: each scalar    *)
(* with its style (plain or quoted) and its text, so that what the loader  *)
(* constructs from a scalar and what the dumper writes for a value are two *)
(* functions and not one.  Numbers and timestamps are kept as their text.  *)
(***************************************************************************)
EXTENDS Integers, Sequences, FiniteSets, TLC

(* ------------------------------ bounds --------------------------------- *)
\* most requests the entry source answers in one run (a finite source)
MaxPages == 2
\* most items of one page
MaxItems == 2
\* most rules of one configuration
MaxRules == 2
\* runs of the program over the same saved entries
MaxRuns == 2
\* most task creations the to-do service rejects
MaxRejects == 1
\* most stream ids of one matcher
MaxIds == 2

None == "None"

(* ------------------------------ entries -------------------------------- *)
\* Entry: the fields the matchers, the processors and the log lines read
\* (origin is collapsed to origin.stream_id, summary to summary.content)
Entry(id, title, url, stream, summary) ==
  [id |-> id, title |-> title, canonical_url |-> url,
   origin |-> stream, summary |-> summary]

\* the entries the source may return: one with every field, one with only
\* the required id
Entries ==
  { Entry("a", "A", "http://a", "s1", "sum"),
    Entry("b", None, None, None, None) }

(* ------------------------------ matchers ------------------------------- *)
Matcher(name, ids, result) ==
  [matcher_name |-> name, stream_ids |-> ids, result |-> result]

AllMatcher == Matcher("all", <<>>, None)

StreamIdInMatcher(ids) == Matcher("stream_id_in", ids, None)

\* any other subclass of the abstract BaseMatcher (the test doubles of
\* test_main.py): is_match returns true, returns false or raises
OtherMatcher(result) == Matcher("other", <<>>, result)

SeqToSet(s) == { s[i] : i \in DOMAIN s }

\* the lower-case form of a stream id
Lower(id) == IF id = "S1" THEN "s1" ELSE id

\* matchers that compare stream ids without regard to case
is_match_caseless(m, entry) ==
  CASE m.matcher_name = "all" -> [raised |-> FALSE, value |-> TRUE]
    [] m.matcher_name = "stream_id_in" ->
         [raised |-> FALSE,
          value |-> /\ entry.origin # None
                    /\ \E i \in DOMAIN m.stream_ids :
                         Lower(m.stream_ids[i]) = Lower(entry.origin)]
    [] OTHER ->
         [raised |-> m.result = "raise", value |-> m.result = "true"]

\* matchers of which `all` wants an entry with an origin
is_match_with_origin(m, entry) ==
  CASE m.matcher_name = "all" ->
         [raised |-> FALSE, value |-> entry.origin # None]
    [] m.matcher_name = "stream_id_in" ->
         [raised |-> FALSE,
          value |-> entry.origin # None /\ entry.origin \in SeqToSet(m.stream_ids)]
    [] OTHER ->
         [raised |-> m.result = "raise", value |-> m.result = "true"]

\* is_match: [raised, value]
is_match(m, entry) ==
  CASE m.matcher_name = "all" -> [raised |-> FALSE, value |-> TRUE]
    [] m.matcher_name = "stream_id_in" ->
         [raised |-> FALSE,
          value |-> entry.origin # None /\ entry.origin \in SeqToSet(m.stream_ids)]
    [] OTHER ->
         [raised |-> m.result = "raise", value |-> m.result = "true"]

(* ----------------------------- processors ------------------------------ *)
Processor(kind, level, project, fails) ==
  [kind |-> kind, level |-> level, project_id |-> project,
   priority |-> None, due_datetime |-> None, fails |-> fails]

\* Rule.processor as config_loader.Rule declares it: the processor's name,
\* a str (the name is kept in project_id's place: no other field is read)
StrProcessor(name) == Processor("str", None, name, FALSE)

LogEntryProcessor(level) == Processor("log", level, None, FALSE)

LogOnlyEntryProcessor(level) == Processor("log_only", level, None, FALSE)

TodoistEntryProcessor(project) == Processor("todoist", None, project, FALSE)

\* TodoistEntryProcessor with its optional fields: priority is the text of
\* 1..4 or None, due is the text of the due time or None
TodoistEntryProcessorWith(project, priority, due) ==
  [ TodoistEntryProcessor(project) EXCEPT !.priority = priority,
                                          !.due_datetime = due ]

\* any other subclass of the abstract BaseEntryProcessor (the test doubles
\* of test_main.py): process_entry returns or raises
OtherProcessor(fails) == Processor("other", None, None, fails)

Line(level, kind, entry, rule) ==
  [level |-> level, kind |-> kind, title |-> entry.title,
   url |-> entry.canonical_url, rule |-> rule]

\* an add_task call that passes none of the processor's optional fields
Task_required_only(p, entry, up) ==
  [content |-> <<entry.title, " - ", entry.canonical_url>>,
   project_id |-> p.project_id, priority |-> None, due_datetime |-> None,
   description |-> IF entry.summary # None THEN entry.summary ELSE None,
   answer |-> up]

\* one add_task call: its arguments and the to-do service's answer
Task(p, entry, up) ==
  [content |-> <<entry.title, " - ", entry.canonical_url>>,
   project_id |-> p.project_id, priority |-> p.priority,
   due_datetime |-> p.due_datetime,
   description |-> IF entry.summary # None THEN entry.summary ELSE None,
   answer |-> up]

Levels == {"info", "debug", "warning", "error"}

\* a log processor that writes every line at info
log_process_entry_info(p, entry) ==
  [invoked |-> TRUE, raised |-> FALSE,
   lines |-> << Line("info", "entry", entry, None) >>, tasks |-> <<>>]

\* LogEntryProcessor.process_entry: one line at the level; assert_never
\* raises on any other level
log_process_entry(p, entry) ==
  IF p.level \in Levels
  THEN [invoked |-> TRUE, raised |-> FALSE,
        lines |-> << Line(p.level, "entry", entry, None) >>, tasks |-> <<>>]
  ELSE [invoked |-> TRUE, raised |-> TRUE, lines |-> <<>>, tasks |-> <<>>]

\* LogOnlyEntryProcessor.process_entry: one line at the level, at info on
\* any other level
log_only_process_entry(p, entry) ==
  [invoked |-> TRUE, raised |-> FALSE,
   lines |-> << Line(IF p.level \in Levels THEN p.level ELSE "info",
                     "entry", entry, None) >>,
   tasks |-> <<>>]

\* a processor that files an entry without a URL under a placeholder
todoist_process_entry_placeholder(p, entry, up) ==
  LET filed == IF entry.canonical_url = None
               THEN [entry EXCEPT !.canonical_url = "about:blank"]
               ELSE entry
  IN  IF up = "reject"
      THEN [invoked |-> TRUE, raised |-> TRUE, lines |-> <<>>,
            tasks |-> << Task(p, filed, up) >>]
      ELSE [invoked |-> TRUE, raised |-> FALSE,
            lines |-> << Line("info", "task", entry, None) >>,
            tasks |-> << Task(p, filed, up) >>]

\* a processor that catches the service's rejection, tries once more and
\* returns
todoist_process_entry_retry(p, entry, up) ==
  IF entry.canonical_url = None
  THEN [invoked |-> TRUE, raised |-> TRUE, lines |-> <<>>, tasks |-> <<>>]
  ELSE IF up = "reject"
       THEN [invoked |-> TRUE, raised |-> FALSE, lines |-> <<>>,
             tasks |-> << Task(p, entry, up), Task(p, entry, up) >>]
       ELSE [invoked |-> TRUE, raised |-> FALSE,
             lines |-> << Line("info", "task", entry, None) >>,
             tasks |-> << Task(p, entry, up) >>]

\* TodoistEntryProcessor.process_entry; up is the to-do service's answer to
\* add_task: "ok" or "reject"
todoist_process_entry(p, entry, up) ==
  IF entry.canonical_url = None
  THEN [invoked |-> TRUE, raised |-> TRUE, lines |-> <<>>, tasks |-> <<>>]
  ELSE IF up = "reject"
       THEN [invoked |-> TRUE, raised |-> TRUE, lines |-> <<>>,
             tasks |-> << Task(p, entry, up) >>]
       ELSE [invoked |-> TRUE, raised |-> FALSE,
             lines |-> << Line("info", "task", entry, None) >>,
             tasks |-> << Task(p, entry, up) >>]

\* rule.processor.process_entry(entry): the attribute lookup and the call.
\* A str has no process_entry: the lookup raises AttributeError and no
\* processor runs.
call_processor(p, entry, up) ==
  CASE p.kind = "str" ->
         [invoked |-> FALSE, raised |-> TRUE, lines |-> <<>>, tasks |-> <<>>]
    [] p.kind = "log" -> log_process_entry(p, entry)
    [] p.kind = "log_only" -> log_only_process_entry(p, entry)
    [] p.kind = "todoist" -> todoist_process_entry(p, entry, up)
    [] OTHER ->
         [invoked |-> TRUE, raised |-> p.fails, lines |-> <<>>, tasks |-> <<>>]

(* -------------------------------- rules -------------------------------- *)
\* Rule with its processor_config: the keys of the dict and their values,
\* in the order of the dict
ConfiguredRule(name, match, processor, processor_config) ==
  [name |-> name, match |-> match, processor |-> processor,
   processor_config |-> processor_config]

\* Rule with the default processor_config, the empty dict
Rule(name, match, processor) == ConfiguredRule(name, match, processor, <<>>)

\* the rules a configuration is drawn from: every matcher outcome and every
\* processor outcome of process_entry occurs
RuleSet ==
  { Rule("log-all", AllMatcher, LogEntryProcessor("info")),
    Rule("todo-s1", StreamIdInMatcher(<<"s1">>), TodoistEntryProcessor("Inbox")),
    Rule("bad-match", OtherMatcher("raise"), LogEntryProcessor("error")),
    Rule("bad-proc", AllMatcher, OtherProcessor(TRUE)),
    Rule("named", AllMatcher, StrProcessor("log_only")) }

RECURSIVE SeqsUpTo(_, _)
SeqsUpTo(S, n) ==
  IF n = 0 THEN { <<>> }
  ELSE LET shorter == SeqsUpTo(S, n - 1)
       IN  shorter \cup { Append(s, x) : s \in shorter, x \in S }

Configs == SeqsUpTo(RuleSet, MaxRules)

\* the configurations of the runs over several pages
FetchConfigs ==
  { <<>>,
    << Rule("log-all", AllMatcher, LogEntryProcessor("info")),
       Rule("todo-s1", StreamIdInMatcher(<<"s1">>),
            TodoistEntryProcessor("Inbox")) >>,
    << Rule("bad-match", OtherMatcher("raise"), LogEntryProcessor("error")),
       Rule("named", AllMatcher, StrProcessor("log_only")) >> }

(* ------------------------ the configuration file ----------------------- *)
\* a Python value held by processor_config: its type and its text
Value(type, text) == [type |-> type, text |-> text]

\* a scalar node of the YAML document or what the document has in its
\* place; style is "plain", "quoted", "mapping" (a mapping where a scalar is
\* expected) or "absent" (the key is missing)
Scalar(style, text) == [style |-> style, text |-> text]

Absent == Scalar("absent", "")

Plain(text) == Scalar("plain", text)

Quoted(text) == Scalar("quoted", text)

\* the plain scalars the YAML loader resolves to an int, to a timestamp, to
\* null
IntTexts == {"4"}

TimestampTexts == {"2025-12-31T23:59:59"}

NullTexts == {"null", "~", ""}

\* parse_yaml_raw_as, the loader: the Python value of a scalar node (of a
\* node that is no scalar: no value, typed by what is there)
construct_scalar(n) ==
  CASE n.style = "quoted" -> Value("str", n.text)
    [] n.style = "plain" /\ n.text \in IntTexts -> Value("int", n.text)
    [] n.style = "plain" /\ n.text \in TimestampTexts ->
         Value("datetime", n.text)
    [] n.style = "plain" /\ n.text \in NullTexts -> Value("NoneType", "null")
    [] n.style = "plain" -> Value("str", n.text)
    [] OTHER -> Value(n.style, "")

\* to_yaml_str, the dumper: a string is quoted when the loader would
\* resolve its plain text to something else than the string
represent_scalar(v) ==
  CASE v.type = "str" ->
         IF construct_scalar(Plain(v.text)).type = "str"
         THEN Plain(v.text) ELSE Quoted(v.text)
    [] v.type = "NoneType" -> Plain("null")
    [] OTHER -> Plain(v.text)

\* to_yaml_str, model_dump_json and json.loads: a value of a JSON type is
\* kept, a datetime becomes the string of its ISO format
to_jsonable(v) ==
  IF v.type = "datetime" THEN Value("str", v.text) ELSE v

\* the node at a rule's `match` key: kind is "mapping" or "absent";
\* ids_kind is "sequence", "scalar" (a scalar in the list's place) or
\* "absent"
MatchNode(kind, matcher_name, ids_kind, ids) ==
  [kind |-> kind, matcher_name |-> matcher_name,
   stream_ids |-> [kind |-> ids_kind, items |-> ids]]

\* the node at a rule's `processor_config` key: kind is "mapping" or
\* "absent", items are the keys and their scalar nodes
ConfigNode(kind, items) == [kind |-> kind, items |-> items]

Item(key, value) == [key |-> key, value |-> value]

RuleNode(name, match, processor, processor_config) ==
  [name |-> name, match |-> match, processor |-> processor,
   processor_config |-> processor_config]

\* the file at a path: whether it exists, whether its text is a YAML
\* document, whether the document has the key `rules`, the nodes of the
\* rules
File(exists, wellformed, has_rules, rule_nodes) ==
  [exists |-> exists, wellformed |-> wellformed, has_rules |-> has_rules,
   rules |-> rule_nodes]

NoFile == File(FALSE, FALSE, FALSE, <<>>)

\* pydantic's validation of the node at `match` as AllMatcher |
\* StreamIdInMatcher, told apart by matcher_name
valid_match(m) ==
  /\ m.kind = "mapping"
  /\ construct_scalar(m.matcher_name).type = "str"
  /\ \/ construct_scalar(m.matcher_name).text = "all"
     \/ /\ construct_scalar(m.matcher_name).text = "stream_id_in"
        /\ m.stream_ids.kind = "sequence"
        /\ \A i \in DOMAIN m.stream_ids.items :
             construct_scalar(m.stream_ids.items[i]).type = "str"

\* the matcher of a valid node at `match`
validate_match(m) ==
  IF construct_scalar(m.matcher_name).text = "all" THEN AllMatcher
  ELSE StreamIdInMatcher(
         [ i \in DOMAIN m.stream_ids.items |->
             construct_scalar(m.stream_ids.items[i]).text ])

\* pydantic's validation of a rule's node as Rule: name and processor are
\* strings, match is a matcher, processor_config is a dict or is missing
valid_rule(r) ==
  /\ construct_scalar(r.name).type = "str"
  /\ valid_match(r.match)
  /\ construct_scalar(r.processor).type = "str"

\* the Rule of a valid node
validate_rule(r) ==
  ConfiguredRule(construct_scalar(r.name).text,
                 validate_match(r.match),
                 StrProcessor(construct_scalar(r.processor).text),
                 [ i \in DOMAIN r.processor_config.items |->
                     Item(r.processor_config.items[i].key,
                          construct_scalar(r.processor_config.items[i].value)) ])

\* parse_yaml_raw_as(Config, yaml_content): [raised, rules]
parse_yaml_raw_as(f) ==
  IF ~f.wellformed THEN [raised |-> "YAMLError", rules |-> <<>>]
  ELSE IF ~f.has_rules \/ \E i \in DOMAIN f.rules : ~valid_rule(f.rules[i])
  THEN [raised |-> "ValidationError", rules |-> <<>>]
  ELSE [raised |-> None,
        rules |-> [ i \in DOMAIN f.rules |-> validate_rule(f.rules[i]) ]]

\* what load_config does: raised is None when it returns and the type of
\* the exception when it raises, names_file says the message has the path
Loaded(raised, names_file, loaded_rules) ==
  [raised |-> raised, names_file |-> names_file, rules |-> loaded_rules]

\* load_config without its except clause
load_config_unwrapped(f) ==
  IF ~f.exists THEN Loaded("FileNotFoundError", TRUE, <<>>)
  ELSE LET parsed == parse_yaml_raw_as(f)
       IN  Loaded(parsed.raised, FALSE, parsed.rules)

\* load_config(file_path)
load_config(f) ==
  IF ~f.exists THEN Loaded("FileNotFoundError", TRUE, <<>>)
  ELSE LET parsed == parse_yaml_raw_as(f)
       IN  IF parsed.raised # None THEN Loaded("ValueError", TRUE, <<>>)
           ELSE Loaded(None, FALSE, parsed.rules)

\* the node to_yaml_str writes for a matcher
dump_match(m) ==
  IF m.matcher_name = "all"
  THEN MatchNode("mapping", represent_scalar(Value("str", "all")),
                 "absent", <<>>)
  ELSE MatchNode("mapping", represent_scalar(Value("str", "stream_id_in")),
                 "sequence",
                 [ i \in DOMAIN m.stream_ids |->
                     represent_scalar(Value("str", m.stream_ids[i])) ])

\* the node to_yaml_str writes for a Rule
dump_rule(rule) ==
  RuleNode(represent_scalar(Value("str", rule.name)),
           dump_match(rule.match),
           represent_scalar(Value("str", rule.processor.project_id)),
           ConfigNode("mapping",
                      [ i \in DOMAIN rule.processor_config |->
                          Item(rule.processor_config[i].key,
                               represent_scalar(
                                 to_jsonable(rule.processor_config[i].value))) ]))

\* to_yaml_str(config), as the text save_config writes to the file
to_yaml_str(config_rules) ==
  File(TRUE, TRUE, TRUE,
       [ i \in DOMAIN config_rules |-> dump_rule(config_rules[i]) ])

\* the nodes the files are made of: every field present and valid, missing,
\* and of a wrong type
NameNodes == { Absent, Plain("r"), Plain("4"), Quoted("4") }

MatchNodes ==
  { MatchNode("absent", Absent, "absent", <<>>),
    MatchNode("mapping", Absent, "absent", <<>>),
    MatchNode("mapping", Plain("all"), "absent", <<>>),
    MatchNode("mapping", Plain("other"), "absent", <<>>),
    MatchNode("mapping", Plain("stream_id_in"), "absent", <<>>),
    MatchNode("mapping", Plain("stream_id_in"), "scalar",
              << Plain("not_a_list") >>),
    MatchNode("mapping", Plain("stream_id_in"), "sequence", <<>>),
    MatchNode("mapping", Plain("stream_id_in"), "sequence", << Plain("s1") >>),
    MatchNode("mapping", Plain("stream_id_in"), "sequence",
              << Plain("s1"), Quoted("4") >>),
    MatchNode("mapping", Plain("stream_id_in"), "sequence", << Plain("4") >>) }

ProcessorNodes ==
  { Absent, Plain("todoist"), Plain("log_only"), Plain("unknown_processor"),
    Scalar("mapping", "") }

ConfigNodes ==
  { ConfigNode("absent", <<>>),
    ConfigNode("mapping", <<>>),
    ConfigNode("mapping", << Item("project_id", Plain("Inbox")) >>),
    ConfigNode("mapping", << Item("project_id", Plain("Inbox")),
                             Item("priority", Plain("4")) >>),
    ConfigNode("mapping", << Item("project_id", Plain("Inbox")),
                             Item("due_datetime",
                                  Plain("2025-12-31T23:59:59")) >>),
    ConfigNode("mapping", << Item("project_id", Plain("Inbox")),
                             Item("due_datetime",
                                  Quoted("2025-12-31T23:59:59")) >>) }

RuleNodes ==
  { RuleNode(n, m, p, c) : n \in NameNodes, m \in MatchNodes,
                           p \in ProcessorNodes, c \in ConfigNodes }

\* the rules of the files of several rules
CoreNodes ==
  { RuleNode(Plain("r"), MatchNode("mapping", Plain("all"), "absent", <<>>),
             Plain("log_only"), ConfigNode("absent", <<>>)),
    RuleNode(Plain("t"),
             MatchNode("mapping", Plain("stream_id_in"), "sequence",
                       << Plain("s1") >>),
             Plain("todoist"),
             ConfigNode("mapping", << Item("project_id", Plain("Inbox")) >>)) }

\* the files load_config is given: no file, a text that is no YAML
\* document, a document without `rules`, documents of one rule of every
\* make, documents of up to MaxRules valid rules
Files ==
  { NoFile, File(TRUE, FALSE, FALSE, <<>>), File(TRUE, TRUE, FALSE, <<>>) }
  \cup { File(TRUE, TRUE, TRUE, << r >>) : r \in RuleNodes }
  \cup { File(TRUE, TRUE, TRUE, rs) : rs \in SeqsUpTo(CoreNodes, MaxRules) }

(* ---------------------------- process_entry ---------------------------- *)
\* the lines a call logged through logger.exception
ErrorKinds == {"error_evaluating", "error_processing"}

\* the shape of process_entry's result
Result(log, tasks, matched, invoked, proc_raised, propagated) ==
  [log |-> log, tasks |-> tasks, matched |-> matched, invoked |-> invoked,
   proc_raised |-> proc_raised, propagated |-> propagated]

\* process_entry with one try block around the matcher only: a failure of
\* the processor leaves process_entry
process_entry_uncaught(entry, rule, up, world) ==
  LET m == is_match(rule.match, entry)
  IN  IF m.raised
      THEN Result(Append(world.log,
                         Line("error", "error_evaluating", entry, rule.name)),
                  world.tasks, "raise", 0, FALSE, FALSE)
      ELSE IF ~m.value
      THEN Result(world.log, world.tasks, "false", 0, FALSE, FALSE)
      ELSE LET r == call_processor(rule.processor, entry, up)
           IN  Result(Append(world.log,
                             Line("info", "matched", entry, rule.name))
                      \o r.lines,
                      world.tasks \o r.tasks, "true",
                      IF r.invoked THEN 1 ELSE 0, r.invoked /\ r.raised,
                      r.raised)

\* process_entry without the outer try block: a failure of the matcher
\* leaves process_entry
process_entry_unguarded(entry, rule, up, world) ==
  LET m == is_match(rule.match, entry)
  IN  IF m.raised
      THEN Result(world.log, world.tasks, "raise", 0, FALSE, TRUE)
      ELSE IF ~m.value
      THEN Result(world.log, world.tasks, "false", 0, FALSE, FALSE)
      ELSE LET r == call_processor(rule.processor, entry, up)
               matchedLog == Append(world.log,
                                    Line("info", "matched", entry, rule.name))
                             \o r.lines
           IN  Result(IF r.raised
                      THEN Append(matchedLog,
                                  Line("error", "error_processing", entry,
                                       rule.name))
                      ELSE matchedLog,
                      world.tasks \o r.tasks, "true",
                      IF r.invoked THEN 1 ELSE 0, r.invoked /\ r.raised,
                      FALSE)

\* process_entry whose inner handler logs and raises again: the outer
\* handler logs the processor's failure a second time
process_entry_reraise(entry, rule, up, world) ==
  LET m == is_match(rule.match, entry)
  IN  IF m.raised
      THEN Result(Append(world.log,
                         Line("error", "error_evaluating", entry, rule.name)),
                  world.tasks, "raise", 0, FALSE, FALSE)
      ELSE IF ~m.value
      THEN Result(world.log, world.tasks, "false", 0, FALSE, FALSE)
      ELSE LET r == call_processor(rule.processor, entry, up)
               matchedLog == Append(world.log,
                                    Line("info", "matched", entry, rule.name))
                             \o r.lines
           IN  Result(IF r.raised
                      THEN matchedLog
                           \o << Line("error", "error_processing", entry,
                                      rule.name),
                                 Line("error", "error_evaluating", entry,
                                      rule.name) >>
                      ELSE matchedLog,
                      world.tasks \o r.tasks, "true",
                      IF r.invoked THEN 1 ELSE 0, r.invoked /\ r.raised,
                      FALSE)

\* process_entry that stops evaluating once an error has been logged
process_entry_breaker(entry, rule, up, world) ==
  LET m == is_match(rule.match, entry)
      tripped == \E k \in DOMAIN world.log : world.log[k].kind \in ErrorKinds
  IN  IF tripped
      THEN Result(world.log, world.tasks, "false", 0, FALSE, FALSE)
      ELSE IF m.raised
      THEN Result(Append(world.log,
                         Line("error", "error_evaluating", entry, rule.name)),
                  world.tasks, "raise", 0, FALSE, FALSE)
      ELSE IF ~m.value
      THEN Result(world.log, world.tasks, "false", 0, FALSE, FALSE)
      ELSE LET r == call_processor(rule.processor, entry, up)
               matchedLog == Append(world.log,
                                    Line("info", "matched", entry, rule.name))
                             \o r.lines
           IN  Result(IF r.raised
                      THEN Append(matchedLog,
                                  Line("error", "error_processing", entry,
                                       rule.name))
                      ELSE matchedLog,
                      world.tasks \o r.tasks, "true",
                      IF r.invoked THEN 1 ELSE 0, r.invoked /\ r.raised,
                      FALSE)

\* process_entry that skips a pair the log shows as matched before
process_entry_dedup(entry, rule, up, world) ==
  LET m == is_match(rule.match, entry)
      seen == \E k \in DOMAIN world.log :
                world.log[k] = Line("info", "matched", entry, rule.name)
  IN  IF m.raised
      THEN Result(Append(world.log,
                         Line("error", "error_evaluating", entry, rule.name)),
                  world.tasks, "raise", 0, FALSE, FALSE)
      ELSE IF ~m.value
      THEN Result(world.log, world.tasks, "false", 0, FALSE, FALSE)
      ELSE IF seen
      THEN Result(world.log, world.tasks, "true", 0, FALSE, FALSE)
      ELSE LET r == call_processor(rule.processor, entry, up)
               matchedLog == Append(world.log,
                                    Line("info", "matched", entry, rule.name))
                             \o r.lines
           IN  Result(IF r.raised
                      THEN Append(matchedLog,
                                  Line("error", "error_processing", entry,
                                       rule.name))
                      ELSE matchedLog,
                      world.tasks \o r.tasks, "true",
                      IF r.invoked THEN 1 ELSE 0, r.invoked /\ r.raised,
                      FALSE)

\* process_entry(entry, rule): world is the log and the to-do service's
\* tasks before the call; the result is the world after it, and what the
\* call did: matched is "true", "false" or "raise", invoked counts the runs
\* of the processor's process_entry, proc_raised says one of them raised,
\* propagated says an exception left process_entry
process_entry(entry, rule, up, world) ==
  LET m == is_match(rule.match, entry)
  IN  IF m.raised
      THEN Result(Append(world.log,
                         Line("error", "error_evaluating", entry, rule.name)),
                  world.tasks, "raise", 0, FALSE, FALSE)
      ELSE IF ~m.value
      THEN Result(world.log, world.tasks, "false", 0, FALSE, FALSE)
      ELSE LET r == call_processor(rule.processor, entry, up)
               matchedLog == Append(world.log,
                                    Line("info", "matched", entry, rule.name))
                             \o r.lines
           IN  Result(IF r.raised
                      THEN Append(matchedLog,
                                  Line("error", "error_processing", entry,
                                       rule.name))
                      ELSE matchedLog,
                      world.tasks \o r.tasks, "true",
                      IF r.invoked THEN 1 ELSE 0, r.invoked /\ r.raised,
                      FALSE)

\* a process_entry that marks the entry it was given as seen
process_entry_arguments_marked(entry, rule) ==
  [entry |-> [entry EXCEPT !.summary = "seen"], rule |-> rule]

\* the arguments of process_entry after the call: Entry, Rule, the matchers
\* and the processors are frozen models, and neither process_entry nor
\* is_match nor a processor's process_entry assigns to a field of them
process_entry_arguments(entry, rule) == [entry |-> entry, rule |-> rule]

\* first match wins: the inner loop breaks after a rule that matched
next_rule_first_match(j, n, res) ==
  IF res.matched = "true" THEN n + 1 ELSE j + 1

\* the inner loop of process_entries, `for rule in rules`: the index of the
\* rule evaluated after rule j of n (n + 1: the inner loop is over)
next_rule(j, n, res) == j + 1

\* a `for rule in rules` that always starts at the first rule
iter_rules_rewound(kind, position) == 1

\* iter(rules), as `for rule in rules` calls it for each entry: the index of
\* the first rule the loop gets. A tuple gives a new iterator at its first
\* element; an iterator gives itself, at the position it has reached
iter_rules(kind, position) ==
  IF kind = "iterator" THEN position ELSE 1

(* ------------------------- fetch_saved_entries ------------------------- *)
\* Python truthiness of an optional string
truthy(s) == s # None /\ s # ""

\* a request that never carries the continuation
request_continuation_dropped(continuation) == None

\* the continuation parameter of the request (None: the parameter is absent)
request_continuation(continuation) ==
  IF truthy(continuation) THEN continuation ELSE None

\* a break test that ends the fetch after any page
fetch_ends_any_page(contents) == TRUE

\* a break test that looks at the token only
fetch_ends_token_only(contents) == ~truthy(contents.continuation)

\* the break test after a page has been yielded
fetch_ends(contents) ==
  (~truthy(contents.continuation)) \/ (Len(contents.items) = 0)

\* the list `yield from` iterates
yield_from(contents) == contents.items

\* the entries collected in a list before the loop starts, as
\* list(client.fetch_saved_entries()) does: the fetch runs ahead of the loop
generator_may_run_eager(loopPc, handedOver) == TRUE

\* fetch_saved_entries is a generator: its body runs only while the consumer
\* is blocked in next() on it, and the entry it yields is handed over at once
generator_may_run(loopPc, handedOver) ==
  loopPc = "next" /\ handedOver = <<>>

(* ----------------------- processor construction ----------------------- *)
\* the names get_processor knows
PROCESSOR_MAPPING == {"todoist", "log_only"}

Priorities == {"1", "2", "3", "4"}

\* raw_config[key], or a value of type "missing"
config_get(raw_config, key) ==
  IF \E i \in DOMAIN raw_config : raw_config[i].key = key
  THEN raw_config[CHOOSE i \in DOMAIN raw_config : raw_config[i].key = key].value
  ELSE Value("missing", "")

\* what get_processor does: raised is None when it returns the processor
Built(raised, processor) == [raised |-> raised, processor |-> processor]

\* TodoistEntryProcessor(**raw_config): the validation of the fields, then
\* __post_init__ with the environment's TODOIST_API_TOKEN
todoist_init(raw_config, api_token) ==
  LET project == config_get(raw_config, "project_id")
      priority == config_get(raw_config, "priority")
      due == config_get(raw_config, "due_datetime")
      valid == /\ project.type = "str"
               /\ \/ priority.type \in {"missing", "NoneType"}
                  \/ priority.type = "int" /\ priority.text \in Priorities
               /\ \/ due.type \in {"missing", "NoneType", "datetime"}
                  \/ due.type = "str" /\ due.text \in TimestampTexts
      made == TodoistEntryProcessorWith(
                project.text,
                IF priority.type = "int" THEN priority.text ELSE None,
                IF due.type \in {"datetime", "str"} THEN due.text ELSE None)
  IN  IF ~valid THEN Built("ValidationError", made)
      ELSE IF ~truthy(api_token) THEN Built("ValueError", made)
      ELSE Built(None, made)

\* LogOnlyEntryProcessor(**raw_config)
log_only_init(raw_config) ==
  LET level == config_get(raw_config, "level")
  IN  IF level.type = "missing" THEN Built(None, LogOnlyEntryProcessor("info"))
      ELSE IF level.type = "str" /\ level.text \in Levels
      THEN Built(None, LogOnlyEntryProcessor(level.text))
      ELSE Built("ValidationError", LogOnlyEntryProcessor(level.text))

\* get_processor(processor_name, raw_config)
get_processor(processor_name, raw_config, api_token) ==
  IF processor_name \notin PROCESSOR_MAPPING
  THEN Built("ValueError", StrProcessor(processor_name))
  ELSE IF processor_name = "todoist" THEN todoist_init(raw_config, api_token)
  ELSE log_only_init(raw_config)

(* --------------------------- the entry source -------------------------- *)
\* the continuation of page k: absent, empty, or the page's own token
Token(k) == <<"t1", "t2", "t3", "t4">>[k]

Continuations(k) == {None, "", Token(k)}

Page(items, continuation) ==
  [ok |-> TRUE, items |-> items, continuation |-> continuation]

\* do_api_request raised, or model_validate rejected the response
Failure == [ok |-> FALSE, items |-> <<>>, continuation |-> None]

\* the pages a source holding the entries of catalog may answer with
Pages(k, catalog) ==
  { Page(items, c) : items \in SeqsUpTo(catalog, MaxItems),
                     c \in Continuations(k) }

\* the page carries a next-page token
HasToken(p) == p.continuation # None /\ p.continuation # ""

\* the page is the last of the source: it has no token or no items
LastPage(p) == ~HasToken(p) \/ p.items = <<>>

\* a finite source of at most n pages: page n, if asked for, is a last page
Answers(k, n, catalog) ==
  IF k < n THEN Pages(k, catalog) \cup {Failure}
  ELSE { p \in Pages(k, catalog) : LastPage(p) } \cup {Failure}

\* a source without end: every page may have items and a token, and the
\* token is the same on every page
EndlessAnswers(catalog) == Pages(1, catalog) \cup {Failure}

\* the add_task calls the service rejected
Rejected(tasks) == { k \in DOMAIN tasks : tasks[k].answer = "reject" }

\* the to-do service's answers to the next add_task
Upstream(tasks) ==
  IF Cardinality(Rejected(tasks)) < MaxRejects THEN {"ok", "reject"}
  ELSE {"ok"}

(* -------------------------------- state -------------------------------- *)
VARIABLES
  file,          \* the configuration file at config_file
  token,         \* the environment's TODOIST_API_TOKEN
  fatal,         \* the exception that left main before the loop, if any
  original,      \* the Config last passed to save_config
  saved,         \* the entries the source may hold
  source,        \* "finite": the source ends within pageLimit pages;
                 \* "endless": any page may carry a token, the same one
  iterable,      \* what process_entries gets as `rules`: "tuple", as
                 \* Config.rules is, or "iterator", a single-pass one
  rules,         \* config.rules
  pageLimit,     \* the most pages the saved entries of the source span
  run,           \* the number of this run of the program
  gpc,           \* generator: "request", "items", "ended", "failed"
  lpc,           \* loop: "next", "rules", "done", "aborted"
  continuation,  \* fetch_saved_entries' local
  contents,      \* stream_contents, the page being yielded
  itemIdx,       \* the next item of contents to yield
  handed,        \* entries yielded and not yet bound by `for entry in entries`
  entry,         \* process_entries' entry
  ruleIdx,       \* the rule process_entries evaluates next
  world,         \* the log and the to-do service's tasks
  requests,      \* this run: the continuation parameter of each request
  responses,     \* this run: the answer to each request
  yielded,       \* this run: the entries yielded
  calls,         \* this run: the process_entry calls and what each did
  first          \* the requests, responses, entries and calls of run 1

\* what a run is started with
setup == << file, token, fatal, original, saved, source, iterable >>

vars == << setup, rules, pageLimit, run, gpc, lpc, continuation, contents, itemIdx, handed,
           entry, ruleIdx, world, requests, responses, yielded, calls, first >>

NoContents == Page(<<>>, None)

NoEntry == Entry(None, None, None, None, None)

NoRun == [requests |-> <<>>, responses |-> <<>>, yielded |-> <<>>,
          calls |-> <<>>]

\* the state when main calls process_entries
Started ==
  /\ run = 1
  /\ gpc = "request"
  /\ lpc = "next"
  /\ continuation = None
  /\ contents = NoContents
  /\ itemIdx = 1
  /\ handed = <<>>
  /\ entry = NoEntry
  /\ ruleIdx = 1
  /\ world = [log |-> <<>>, tasks |-> <<>>]
  /\ requests = <<>>
  /\ responses = <<>>
  /\ yielded = <<>>
  /\ calls = <<>>
  /\ first = NoRun

\* LogEntryProcessor(level=configured), and LogEntryProcessor() when no
\* level is configured: the field's default is "info"
LogEntryProcessorOf(configured) ==
  LogEntryProcessor(IF configured = None THEN "info" ELSE configured)

\* a logging rule, named by the level it is configured with
LogRule(configured) ==
  Rule(configured, AllMatcher, LogEntryProcessorOf(configured))

\* the configurations of the runs of the log processor: every level and
\* no level, alone and in pairs
LogConfigs ==
  { << LogRule(lv) >> : lv \in Levels \cup {None} }
  \cup { << LogRule(None), LogRule(lv) >> : lv \in Levels }

\* the entries of the runs of the matchers: the two of Entries and one of
\* a stream whose id differs from "s1" by case
MatcherEntries == Entries \cup { Entry("d", "D", "http://d", "S1", None) }

StreamIds == {"s1", "S1", "s2"}

\* the configurations of these runs: one logging rule with any matcher
MatcherConfigs ==
  { << Rule("m", m, LogEntryProcessor("info")) >> :
      m \in {AllMatcher}
            \cup { StreamIdInMatcher(ids) : ids \in SeqsUpTo(StreamIds, MaxIds) } }

\* the entries of the runs of the to-do processor: the two of Entries and
\* one with a URL and neither title nor summary
TodoEntries == Entries \cup { Entry("c", None, "http://c", None, None) }

TodoRule(priority, due) ==
  Rule("todo", AllMatcher, TodoistEntryProcessorWith("Inbox", priority, due))

\* the configurations of these runs: the to-do processor with and without
\* its optional fields, alone, before a logging rule, and twice
TodoConfigs ==
  { << TodoRule(pr, due) >> : pr \in {None, "2"},
                              due \in {None, "2025-12-31T23:59:59"} }
  \cup { << TodoRule(pr, None), Rule("log-all", AllMatcher,
                                     LogEntryProcessor("info")) >> :
           pr \in {None, "2"} }
  \cup { << TodoRule(None, None), TodoRule("2", "2025-12-31T23:59:59") >> }

NoError == [type |-> None, names_file |-> FALSE]

NoOriginal == [given |-> FALSE, rules |-> <<>>]

\* the configuration is given as the Config object: no file is read or
\* written, no processor is built from the environment
InMemory ==
  /\ file = NoFile
  /\ token = None
  /\ fatal = NoError
  /\ original = NoOriginal

\* any configuration, the saved entries on one page
Init ==
  /\ rules \in Configs
  /\ pageLimit = 1
  /\ saved = Entries
  /\ source = "finite"
  /\ iterable = "tuple"
  /\ InMemory
  /\ Started

\* the saved entries on up to MaxPages pages
FetchInit ==
  /\ rules \in FetchConfigs
  /\ pageLimit = MaxPages
  /\ saved = Entries
  /\ source = "finite"
  /\ iterable = "tuple"
  /\ InMemory
  /\ Started

\* the matchers on entries with and without origin
MatcherInit ==
  /\ rules \in MatcherConfigs
  /\ pageLimit = 1
  /\ saved = MatcherEntries
  /\ source = "finite"
  /\ iterable = "tuple"
  /\ InMemory
  /\ Started

\* the configurations of the runs on a source without end
EndlessConfigs ==
  { << Rule("log-all", AllMatcher, LogEntryProcessor("info")) >> }

\* a source without end, followed for MaxPages + 1 requests
EndlessInit ==
  /\ rules \in EndlessConfigs
  /\ pageLimit = MaxPages + 1
  /\ saved = Entries
  /\ source = "endless"
  /\ iterable = "tuple"
  /\ InMemory
  /\ Started

\* the configurations of the runs with either kind of `rules`: no rule, one
\* logging rule, and so on up to MaxRules
IterConfigs ==
  { [ j \in 1..n |-> Rule("log-all", AllMatcher, LogEntryProcessor("info")) ] :
      n \in 0..MaxRules }

\* process_entries called with the rules as a tuple or as an iterator
IterInit ==
  /\ rules \in IterConfigs
  /\ pageLimit = MaxPages
  /\ saved = Entries
  /\ source = "finite"
  /\ iterable \in {"tuple", "iterator"}
  /\ InMemory
  /\ Started

\* the log processor on entries with and without title and URL
LogInit ==
  /\ rules \in LogConfigs
  /\ pageLimit = 1
  /\ saved = Entries
  /\ source = "finite"
  /\ iterable = "tuple"
  /\ InMemory
  /\ Started

\* the to-do processor on entries with and without URL and summary
TodoInit ==
  /\ rules \in TodoConfigs
  /\ pageLimit = 1
  /\ saved = TodoEntries
  /\ source = "finite"
  /\ iterable = "tuple"
  /\ InMemory
  /\ Started

\* the state when main is called: nothing loaded, no generator yet
Called ==
  /\ rules = <<>>
  /\ fatal = NoError
  /\ original = NoOriginal
  /\ run = 1
  /\ gpc = "none"
  /\ lpc = "load"
  /\ continuation = None
  /\ contents = NoContents
  /\ itemIdx = 1
  /\ handed = <<>>
  /\ entry = NoEntry
  /\ ruleIdx = 1
  /\ world = [log |-> <<>>, tasks |-> <<>>]
  /\ requests = <<>>
  /\ responses = <<>>
  /\ yielded = <<>>
  /\ calls = <<>>
  /\ first = NoRun

\* the files main is started on with a token, with an empty one, without
StartFiles ==
  { NoFile,
    File(TRUE, TRUE, TRUE,
         << RuleNode(Plain("t"),
                     MatchNode("mapping", Plain("all"), "absent", <<>>),
                     Plain("todoist"),
                     ConfigNode("mapping",
                                << Item("project_id", Plain("Inbox")) >>)) >>),
    File(TRUE, TRUE, TRUE,
         << RuleNode(Plain("r"),
                     MatchNode("mapping", Plain("all"), "absent", <<>>),
                     Plain("log_only"), ConfigNode("absent", <<>>)) >>) }
  \cup { File(TRUE, TRUE, TRUE, rs) : rs \in SeqsUpTo(CoreNodes, MaxRules) }

Tokens == {None, "", "secret"}

\* main called on a configuration file, the saved entries on one page
StartInit ==
  /\ file \in StartFiles
  /\ token \in Tokens
  /\ pageLimit = 1
  /\ saved = Entries
  /\ source = "finite"
  /\ iterable = "tuple"
  /\ Called

\* load_config and save_config called on a file
ConfigInit ==
  /\ file \in Files
  /\ token = None
  /\ pageLimit = 1
  /\ saved = Entries
  /\ source = "finite"
  /\ iterable = "tuple"
  /\ Called

(* ------------------------------- actions ------------------------------- *)
\* the answers of the source to request k: in a later run the source holds
\* the same saved entries, so the same request gets the answer of run 1
SourceAnswers(k) ==
  IF run > 1 /\ k <= Len(first.requests)
     /\ request_continuation(continuation) = first.requests[k]
  THEN { first.responses[k] }
  ELSE IF source = "endless" THEN EndlessAnswers(saved)
  ELSE Answers(k, pageLimit, saved)

\* one pass of `while True` up to the yield: the request, the validation of
\* its response
Request ==
  /\ gpc = "request"
  /\ generator_may_run(lpc, handed)
  /\ Len(requests) < pageLimit
  /\ \E answer \in SourceAnswers(Len(requests) + 1) :
       /\ requests' = Append(requests, request_continuation(continuation))
       /\ responses' = Append(responses, answer)
       /\ IF answer.ok
          THEN /\ contents' = answer
               /\ itemIdx' = 1
               /\ gpc' = "items"
          ELSE /\ gpc' = "failed"
               /\ UNCHANGED << contents, itemIdx >>
  /\ UNCHANGED << setup, rules, pageLimit, run, lpc, continuation, handed, entry, ruleIdx,
                  world, yielded, calls, first >>

\* `yield from stream_contents.items`: the next item
YieldItem ==
  /\ gpc = "items"
  /\ generator_may_run(lpc, handed)
  /\ itemIdx <= Len(yield_from(contents))
  /\ handed' = Append(handed, yield_from(contents)[itemIdx])
  /\ yielded' = Append(yielded, yield_from(contents)[itemIdx])
  /\ itemIdx' = itemIdx + 1
  /\ UNCHANGED << setup, rules, pageLimit, run, gpc, lpc, continuation, contents, entry,
                  ruleIdx, world, requests, responses, calls, first >>

\* the page is exhausted: break, or keep the token and loop
EndPage ==
  /\ gpc = "items"
  /\ generator_may_run(lpc, handed)
  /\ itemIdx > Len(yield_from(contents))
  /\ IF fetch_ends(contents)
     THEN /\ gpc' = "ended"
          /\ UNCHANGED continuation
     ELSE /\ gpc' = "request"
          /\ continuation' = contents.continuation
  /\ UNCHANGED << setup, rules, pageLimit, run, lpc, contents, itemIdx, handed, entry, ruleIdx,
                  world, requests, responses, yielded, calls, first >>

\* `for entry in entries` binds the entry the generator yielded
TakeEntry ==
  /\ lpc = "next"
  /\ handed # <<>>
  /\ entry' = Head(handed)
  /\ handed' = Tail(handed)
  /\ ruleIdx' = iter_rules(iterable, ruleIdx)
  /\ lpc' = IF ruleIdx' > Len(rules) THEN "next" ELSE "rules"
  /\ UNCHANGED << setup, rules, pageLimit, run, gpc, continuation, contents, itemIdx, world,
                  requests, responses, yielded, calls, first >>

\* what a call recorded: the position of its entry in the stream, its rule,
\* the service's answer if the call asked the service, and what
\* process_entry did
Call(pos, j, up, before, res) ==
  [pos |-> pos, id |-> entry.id, rule |-> j,
   up |-> IF Len(res.tasks) > Len(before.tasks) THEN up ELSE None,
   matched |-> res.matched, invoked |-> res.invoked,
   proc_raised |-> res.proc_raised,
   lines |-> SubSeq(res.log, Len(before.log) + 1, Len(res.log)),
   tasks |-> SubSeq(res.tasks, Len(before.tasks) + 1, Len(res.tasks))]

\* one pass of `for rule in rules`: process_entry(entry, rule)
ProcessEntry ==
  /\ lpc = "rules"
  /\ ruleIdx <= Len(rules)
  /\ \E up \in Upstream(world.tasks) :
       LET res == process_entry(entry, rules[ruleIdx], up, world)
           nxt == next_rule(ruleIdx, Len(rules), res)
           after == process_entry_arguments(entry, rules[ruleIdx])
       IN  /\ world' = [log |-> res.log, tasks |-> res.tasks]
           /\ entry' = after.entry
           /\ rules' = [rules EXCEPT ![ruleIdx] = after.rule]
           /\ calls' = Append(calls,
                              Call(Len(yielded) - Len(handed), ruleIdx, up,
                                   world, res))
           /\ IF res.propagated
              THEN /\ lpc' = "aborted"
                   /\ UNCHANGED ruleIdx
              ELSE /\ ruleIdx' = nxt
                   /\ lpc' = IF nxt > Len(rules) THEN "next" ELSE "rules"
  /\ UNCHANGED << setup, pageLimit, run, gpc, continuation, contents, itemIdx, handed,
                  requests, responses, yielded, first >>

\* the generator returned: process_entries and main return, exit code 0
Finish ==
  /\ lpc = "next"
  /\ handed = <<>>
  /\ gpc = "ended"
  /\ lpc' = "done"
  /\ UNCHANGED << setup, rules, pageLimit, run, gpc, continuation, contents, itemIdx, handed,
                  entry, ruleIdx, world, requests, responses, yielded, calls,
                  first >>

\* a loop that catches the failure of the entry source and ends the run as
\* if the source were exhausted
Abort_isolated ==
  /\ lpc = "next"
  /\ handed = <<>>
  /\ gpc = "failed"
  /\ lpc' = "done"
  /\ UNCHANGED << setup, rules, pageLimit, run, gpc, continuation, contents, itemIdx, handed,
                  entry, ruleIdx, world, requests, responses, yielded, calls,
                  first >>

\* the generator raised: the exception leaves process_entries and main
Abort ==
  /\ lpc = "next"
  /\ handed = <<>>
  /\ gpc = "failed"
  /\ lpc' = "aborted"
  /\ UNCHANGED << setup, rules, pageLimit, run, gpc, continuation, contents, itemIdx, handed,
                  entry, ruleIdx, world, requests, responses, yielded, calls,
                  first >>

\* the program is run again: a new process, the same configuration, the
\* same saved entries, the log and the to-do service as the last run left
\* them
Restart ==
  /\ lpc = "done"
  /\ run < MaxRuns
  /\ run' = run + 1
  /\ first' = IF run = 1
              THEN [requests |-> requests, responses |-> responses,
                    yielded |-> yielded, calls |-> calls]
              ELSE first
  /\ gpc' = "request"
  /\ lpc' = "next"
  /\ continuation' = None
  /\ contents' = NoContents
  /\ itemIdx' = 1
  /\ handed' = <<>>
  /\ entry' = NoEntry
  /\ ruleIdx' = 1
  /\ requests' = <<>>
  /\ responses' = <<>>
  /\ yielded' = <<>>
  /\ calls' = <<>>
  /\ UNCHANGED << setup, rules, pageLimit, world >>

\* main up to the call of process_entries: load_config, then the client
\* and the generator; an exception of load_config leaves main
LoadConfig ==
  /\ lpc = "load"
  /\ LET loaded == load_config(file)
     IN  IF loaded.raised = None
         THEN /\ rules' = loaded.rules
              /\ gpc' = "request"
              /\ lpc' = "next"
              /\ UNCHANGED fatal
         ELSE /\ fatal' = [type |-> loaded.raised,
                           names_file |-> loaded.names_file]
              /\ lpc' = "aborted"
              /\ UNCHANGED << rules, gpc >>
  /\ UNCHANGED << file, token, original, saved, source, iterable, pageLimit, run, continuation,
                  contents, itemIdx, handed, entry, ruleIdx, world, requests,
                  responses, yielded, calls, first >>

\* save_config(config, file_path) on the Config load_config returned, in
\* place of the run; the file is then loaded again
SaveConfig ==
  /\ lpc = "next"
  /\ gpc = "request"
  /\ requests = <<>>
  /\ file' = to_yaml_str(rules)
  /\ original' = [given |-> TRUE, rules |-> rules]
  /\ rules' = <<>>
  /\ gpc' = "none"
  /\ lpc' = "load"
  /\ UNCHANGED << token, fatal, saved, source, iterable, pageLimit, run, continuation, contents,
                  itemIdx, handed, entry, ruleIdx, world, requests, responses,
                  yielded, calls, first >>

\* one run of the program
Next ==
  \/ Request
  \/ YieldItem
  \/ EndPage
  \/ TakeEntry
  \/ ProcessEntry
  \/ Finish
  \/ Abort

Spec == Init /\ [][Next]_vars

\* the thread runs while it can: the interpreter takes the next step
FairSpec == Spec /\ WF_vars(Next)

FetchSpec == FetchInit /\ [][Next]_vars

\* the program run MaxRuns times
NextRerun ==
  \/ Next
  \/ Restart

\* the configurations of the repeated runs: the rules of RuleSet whose
\* processor is an object
RerunConfigs ==
  { c \in Configs : \A j \in DOMAIN c : c[j].processor.kind # "str" }

RerunInit ==
  /\ rules \in RerunConfigs
  /\ pageLimit = 1
  /\ saved = Entries
  /\ source = "finite"
  /\ iterable = "tuple"
  /\ InMemory
  /\ Started

RerunSpec == RerunInit /\ [][NextRerun]_vars

TodoSpec == TodoInit /\ [][Next]_vars

MatcherSpec == MatcherInit /\ [][Next]_vars

LogSpec == LogInit /\ [][Next]_vars

EndlessSpec == EndlessInit /\ [][Next]_vars

IterSpec == IterInit /\ [][Next]_vars

\* main from its call
NextStart ==
  \/ LoadConfig
  \/ Next

StartSpec == StartInit /\ [][NextStart]_vars

\* load_config, and save_config of what it returned
NextConfig ==
  \/ LoadConfig
  \/ SaveConfig

ConfigSpec == ConfigInit /\ [][NextConfig]_vars

(* ------------------------- the processing loop ------------------------- *)
IsPrefix(s, t) == Len(s) <= Len(t) /\ SubSeq(t, 1, Len(s)) = s

\* the (entry position, rule index) pairs of n entries and m rules,
\* entry-major
ExpectedPairs(n, m) ==
  [ k \in 1..(n * m) |-> << ((k - 1) \div m) + 1, ((k - 1) % m) + 1 >> ]

CallPairs == [ k \in DOMAIN calls |-> << calls[k].pos, calls[k].rule >> ]

\* the entries process_entries has bound so far
Bound == Len(yielded) - Len(handed)

\* the run is over
Over == lpc \in {"done", "aborted"}

\* C1: the process_entry calls are, at every moment, the first pairs of
\* the entry-major enumeration of the entries received so far with the
\* rules in declared order, each call on the entry at its position; all
\* pairs of the entries before the current one have been called, and when
\* the run is over all pairs of all entries have
EntryMajorOrder ==
  /\ IsPrefix(CallPairs, ExpectedPairs(Len(yielded), Len(rules)))
  /\ \A k \in DOMAIN calls : calls[k].id = yielded[calls[k].pos].id
  /\ Len(calls) = IF lpc = "rules"
                  THEN (Bound - 1) * Len(rules) + (ruleIdx - 1)
                  ELSE Bound * Len(rules)
  /\ Over => CallPairs = ExpectedPairs(Len(yielded), Len(rules))

\* two entries and two rules evaluated to the end
EntryMajorOrderWitness ==
  /\ lpc = "done"
  /\ Len(yielded) >= 2
  /\ Len(rules) = 2
  /\ CallPairs = << <<1, 1>>, <<1, 2>>, <<2, 1>>, <<2, 2>> >>

\* the lines a call logged through logger.exception
ErrorLines(c) == SelectSeq(c.lines, LAMBDA l : l.kind \in ErrorKinds)

\* the matcher or the processor of the call failed
Failed(c) == c.matched = "raise" \/ Len(ErrorLines(c)) > 0

\* process_entry on the pair of call c alone: nothing logged before it, no
\* task created before it, the same answer of the to-do service
Alone(c) ==
  process_entry(yielded[c.pos], rules[c.rule],
                IF c.up = None THEN "ok" ELSE c.up,
                [log |-> <<>>, tasks |-> <<>>])

\* the run was ended by the loop, not by the entry source
LoopAborted == lpc = "aborted" /\ gpc # "failed"

\* C2: whichever pairs failed, the loop is never ended by a pair, every
\* pair of the entries received is evaluated when the run is over, and each
\* call does exactly what process_entry does on its pair alone
FailureIsolation ==
  /\ ~LoopAborted
  /\ Over => Len(calls) = Len(yielded) * Len(rules)
  /\ \A k \in DOMAIN calls :
       LET c == calls[k]
       IN  /\ c.matched = Alone(c).matched
           /\ c.invoked = Alone(c).invoked
           /\ c.lines = Alone(c).log
           /\ c.tasks = Alone(c).tasks

\* a pair failed; a later rule of the same entry and a rule of a later
\* entry still ran their processors without failing
FailureIsolationWitness ==
  /\ lpc = "done"
  /\ \E k \in DOMAIN calls :
       /\ Failed(calls[k])
       /\ \E j \in DOMAIN calls :
            /\ j > k /\ calls[j].pos = calls[k].pos
            /\ calls[j].invoked = 1 /\ ~Failed(calls[j])
       /\ \E j \in DOMAIN calls :
            /\ calls[j].pos > calls[k].pos
            /\ calls[j].invoked = 1 /\ ~Failed(calls[j])

\* C3: the processor of a pair is invoked once if the matcher returned
\* true for the pair and not at all otherwise
InvokedOncePerMatch ==
  \A k \in DOMAIN calls :
    calls[k].invoked = IF calls[k].matched = "true" THEN 1 ELSE 0

\* C4: a call whose matcher raised logged one error, of the matcher's
\* failure, and nothing else, ran no processor, and returned: the loop goes
\* on with the next rule
MatcherFailureHandled ==
  /\ ~LoopAborted
  /\ \A k \in DOMAIN calls :
       calls[k].matched = "raise" =>
         /\ Len(calls[k].lines) = 1
         /\ calls[k].lines[1].kind = "error_evaluating"
         /\ calls[k].lines[1].rule = rules[calls[k].rule].name
         /\ calls[k].lines[1].title = yielded[calls[k].pos].title
         /\ calls[k].lines[1].url = yielded[calls[k].pos].canonical_url
         /\ calls[k].invoked = 0
         /\ calls[k].tasks = <<>>
         /\ (Over /\ calls[k].rule < Len(rules)) =>
              /\ k + 1 \in DOMAIN calls
              /\ calls[k + 1].pos = calls[k].pos
              /\ calls[k + 1].rule = calls[k].rule + 1

\* a matcher raised and the next rule was evaluated on the same entry
MatcherFailureHandledWitness ==
  \E k \in DOMAIN calls :
    /\ calls[k].matched = "raise"
    /\ k + 1 \in DOMAIN calls
    /\ calls[k + 1].pos = calls[k].pos
    /\ calls[k + 1].invoked = 1

\* C5: a call whose processor raised logged one error, of the processor's
\* failure and not of the matcher's, ran the processor once, and returned:
\* the loop goes on with the next rule
ProcessorFailureHandled ==
  /\ ~LoopAborted
  /\ \A k \in DOMAIN calls :
       calls[k].proc_raised =>
         /\ Len(ErrorLines(calls[k])) = 1
         /\ ErrorLines(calls[k])[1].kind = "error_processing"
         /\ ErrorLines(calls[k])[1].rule = rules[calls[k].rule].name
         /\ calls[k].invoked = 1
         /\ Len(calls[k].tasks) <= 1
         /\ (Over /\ calls[k].rule < Len(rules)) =>
              /\ k + 1 \in DOMAIN calls
              /\ calls[k + 1].pos = calls[k].pos
              /\ calls[k + 1].rule = calls[k].rule + 1

\* a processor raised and the next rule was evaluated on the same entry
ProcessorFailureHandledWitness ==
  \E k \in DOMAIN calls :
    /\ calls[k].proc_raised
    /\ k + 1 \in DOMAIN calls
    /\ calls[k + 1].pos = calls[k].pos
    /\ calls[k + 1].matched = "true"

\* C6: a run whose entry source does not fail ends, and ends with main
\* returning (exit code 0), however many pairs failed
TerminatesNormally == <>(lpc = "done" \/ gpc = "failed")

\* a run that ended normally although every pair failed
TerminatesNormallyWitness ==
  /\ lpc = "done"
  /\ Len(calls) >= 2
  /\ \A k \in DOMAIN calls : Failed(calls[k])

(* ------------------------------ the fetch ------------------------------ *)
\* the items of the pages ps, concatenated in page order
RECURSIVE AllItems(_)
AllItems(ps) ==
  IF ps = <<>> THEN <<>>
  ELSE AllItems(SubSeq(ps, 1, Len(ps) - 1)) \o ps[Len(ps)].items

\* C7: the entries yielded are the items of the pages fetched, in page
\* order and in the order of each page (up to the item being yielded of the
\* page being yielded); the first request has no continuation parameter
\* and every later one has the token of the page before it
YieldsPagesInOrder ==
  /\ yielded = IF gpc = "items"
               THEN AllItems(SubSeq(responses, 1, Len(responses) - 1))
                    \o SubSeq(responses[Len(responses)].items, 1, itemIdx - 1)
               ELSE AllItems(responses)
  /\ \A k \in DOMAIN requests :
       requests[k] = IF k = 1 THEN None ELSE responses[k - 1].continuation
  /\ \A k \in DOMAIN requests : k > 1 => HasToken(responses[k - 1])

\* two pages of two items each, fetched and yielded to the end
YieldsPagesInOrderWitness ==
  /\ gpc = "ended"
  /\ Len(requests) = 2
  /\ requests[2] = "t1"
  /\ Len(yielded) = 4
  /\ yielded[1] # yielded[2]
  /\ yielded[3] # yielded[4]

\* C8: no request follows a page that has no token or no items; every page
\* before the last one had a token and items; the fetch ends only on such a
\* page and only after it has yielded the page's items
EndsAtLastPage ==
  /\ \A k \in DOMAIN responses :
       (responses[k].ok /\ LastPage(responses[k])) => k = Len(responses)
  /\ \A k \in DOMAIN responses :
       k < Len(responses) => responses[k].ok /\ ~LastPage(responses[k])
  /\ gpc = "request" /\ responses # <<>> =>
       ~LastPage(responses[Len(responses)])
  /\ gpc = "ended" =>
       /\ responses # <<>>
       /\ LastPage(responses[Len(responses)])
       /\ yielded = AllItems(responses)

\* the fetch ended on an empty page that carried a token, with a page of
\* the source left to ask for
EndsAtLastPageWitness ==
  /\ gpc = "ended"
  /\ Len(requests) < pageLimit
  /\ responses[Len(responses)].items = <<>>
  /\ HasToken(responses[Len(responses)])

\* C9: an entry is asked of the source only when every entry yielded
\* before it has been evaluated against every rule, and a page is requested
\* only when every item of the pages before it has been yielded and
\* evaluated against every rule
LazyConsumption ==
  [][ /\ Len(yielded') > Len(yielded) =>
           CallPairs = ExpectedPairs(Len(yielded), Len(rules))
      /\ Len(requests') > Len(requests) =>
           /\ yielded = AllItems(responses)
           /\ CallPairs = ExpectedPairs(Len(yielded), Len(rules)) ]_vars

\* a second page was requested after the two entries of the first page had
\* each been evaluated against two rules
LazyConsumptionWitness ==
  /\ Len(requests) = 2
  /\ Len(responses[1].items) = 2
  /\ Len(rules) = 2
  /\ Len(calls) >= 4

(* ------------------------------ two runs ------------------------------- *)
\* the invocations of processors among the calls cs, in order
Invocations(cs) ==
  LET invoking == SelectSeq(cs, LAMBDA c : c.invoked > 0)
  IN  [ k \in DOMAIN invoking |->
          << invoking[k].pos, invoking[k].id, invoking[k].rule,
             invoking[k].invoked >> ]

\* C10: a later run over the same saved entries and rules makes the calls
\* and the processor invocations of the first run, in the same order, and
\* in one run two calls on equal entries with the same rule invoke alike
Stateless ==
  /\ run > 1 =>
       /\ IsPrefix(CallPairs,
                   [ k \in DOMAIN first.calls |->
                       << first.calls[k].pos, first.calls[k].rule >> ])
       /\ IsPrefix(Invocations(calls), Invocations(first.calls))
  /\ (run > 1 /\ lpc = "done") =>
       /\ Len(calls) = Len(first.calls)
       /\ Invocations(calls) = Invocations(first.calls)
  /\ \A j, k \in DOMAIN calls :
       (calls[j].id = calls[k].id /\ calls[j].rule = calls[k].rule) =>
         calls[j].invoked = calls[k].invoked

\* a second run ended after invoking processors as the first run did
StatelessWitness ==
  /\ run = 2
  /\ lpc = "done"
  /\ Len(Invocations(calls)) >= 2
  /\ world.tasks # <<>>

(* ------------------------------ the startup ---------------------------- *)
\* the configuration file has a rule whose processor is the to-do one
HasTodoist(f) ==
  \E i \in DOMAIN f.rules :
    construct_scalar(f.rules[i].processor) = Value("str", "todoist")

\* the error lines of the log: the failures the loop caught
CaughtLines == SelectSeq(world.log, LAMBDA l : l.kind \in ErrorKinds)

\* C11: once main is past its startup on a configuration with a to-do
\* processor and without a token (absent or empty), the run has failed
\* fatally: nothing was requested, no entry was processed, no failure was
\* logged per entry
CredentialCheckedAtStartup ==
  (lpc # "load" /\ HasTodoist(file) /\ ~truthy(token)) =>
    /\ lpc = "aborted"
    /\ fatal.type # None
    /\ requests = <<>>
    /\ calls = <<>>
    /\ CaughtLines = <<>>

(* -------------------------- the to-do processor ------------------------ *)
\* the call evaluated a rule of the to-do processor that matched
TodoCall(c) ==
  rules[c.rule].processor.kind = "todoist" /\ c.matched = "true"

\* C12: the to-do processor on an entry without a canonical URL raises
\* before it asks the service anything: no add_task call, no task; the loop
\* catches the failure, logs it once as the processor's and evaluates the
\* next rule
InvalidEntryBeforeClient ==
  /\ ~LoopAborted
  /\ \A k \in DOMAIN world.tasks : world.tasks[k].content[3] # None
  /\ \A k \in DOMAIN calls :
       (TodoCall(calls[k]) /\ yielded[calls[k].pos].canonical_url = None) =>
         /\ calls[k].invoked = 1
         /\ calls[k].proc_raised
         /\ calls[k].tasks = <<>>
         /\ calls[k].up = None
         /\ Len(calls[k].lines) = 2
         /\ calls[k].lines[2].kind = "error_processing"
         /\ (Over /\ calls[k].rule < Len(rules)) =>
              /\ k + 1 \in DOMAIN calls
              /\ calls[k + 1].pos = calls[k].pos
              /\ calls[k + 1].rule = calls[k].rule + 1

\* the to-do processor failed on an entry without a URL and the next rule
\* logged the same entry
InvalidEntryBeforeClientWitness ==
  \E k \in DOMAIN calls :
    /\ TodoCall(calls[k])
    /\ yielded[calls[k].pos].canonical_url = None
    /\ calls[k].proc_raised
    /\ k + 1 \in DOMAIN calls
    /\ calls[k + 1].pos = calls[k].pos
    /\ calls[k + 1].invoked = 1
    /\ ~Failed(calls[k + 1])

\* C13: a call whose add_task the service rejected made that one add_task
\* call and no other, logged no task as added, and raised out of the
\* processor: the loop logged the processor's failure
RejectionPropagatesOnce ==
  \A k \in DOMAIN calls :
    calls[k].up = "reject" =>
      /\ TodoCall(calls[k])
      /\ calls[k].invoked = 1
      /\ calls[k].proc_raised
      /\ Len(calls[k].tasks) = 1
      /\ calls[k].tasks[1].answer = "reject"
      /\ \A i \in DOMAIN calls[k].lines : calls[k].lines[i].kind # "task"
      /\ Len(ErrorLines(calls[k])) = 1
      /\ ErrorLines(calls[k])[1].kind = "error_processing"

\* the service rejected one task and accepted a later one
RejectionPropagatesOnceWitness ==
  \E k \in DOMAIN calls :
    /\ calls[k].up = "reject"
    /\ calls[k].proc_raised
    /\ \E j \in DOMAIN calls : j > k /\ calls[j].up = "ok"

\* C14: the to-do processor on an entry with a canonical URL makes one
\* add_task call: the content is the title, " - " and the URL, project,
\* priority and due time are the processor's (absent when it has none), the
\* description is the summary's content (absent when there is no summary)
TaskArguments ==
  \A k \in DOMAIN calls :
    (TodoCall(calls[k]) /\ yielded[calls[k].pos].canonical_url # None) =>
      LET p == rules[calls[k].rule].processor
          e == yielded[calls[k].pos]
      IN  /\ calls[k].invoked = 1
          /\ Len(calls[k].tasks) = 1
          /\ calls[k].tasks[1].content = << e.title, " - ", e.canonical_url >>
          /\ calls[k].tasks[1].project_id = p.project_id
          /\ calls[k].tasks[1].priority = p.priority
          /\ calls[k].tasks[1].due_datetime = p.due_datetime
          /\ calls[k].tasks[1].description =
               IF e.summary = None THEN None ELSE e.summary

\* tasks were created with priority, due time and description, and without
\* any of them
TaskArgumentsWitness ==
  /\ \E k \in DOMAIN world.tasks :
       /\ world.tasks[k].priority = "2"
       /\ world.tasks[k].due_datetime = "2025-12-31T23:59:59"
       /\ world.tasks[k].description = "sum"
       /\ world.tasks[k].content = << "A", " - ", "http://a" >>
  /\ \E k \in DOMAIN world.tasks :
       /\ world.tasks[k].priority = None
       /\ world.tasks[k].due_datetime = None
       /\ world.tasks[k].description = None

(* ------------------------------ the matchers --------------------------- *)
\* C15: a stream_id_in matcher never raises; it returns true when the
\* entry has an origin whose stream id is, letter for letter, one of the
\* matcher's ids, and false otherwise, so also when there is no origin
StreamIdInMatches ==
  \A k \in DOMAIN calls :
    rules[calls[k].rule].match.matcher_name = "stream_id_in" =>
      LET ids == rules[calls[k].rule].match.stream_ids
          origin == yielded[calls[k].pos].origin
      IN  /\ calls[k].matched \in {"true", "false"}
          /\ calls[k].matched = "true" <=>
               /\ origin # None
               /\ \E i \in DOMAIN ids : ids[i] = origin

\* a matcher of two ids matched an entry by its second id and did not
\* match an entry whose stream id differs from that id by case only
StreamIdInMatchesWitness ==
  /\ Len(rules) = 1
  /\ rules[1].match = StreamIdInMatcher(<< "s2", "s1" >>)
  /\ \E k \in DOMAIN calls :
       calls[k].matched = "true" /\ yielded[calls[k].pos].origin = "s1"
  /\ \E k \in DOMAIN calls :
       calls[k].matched = "false" /\ yielded[calls[k].pos].origin = "S1"

\* C16: the `all` matcher returns true for every entry, whatever fields
\* the entry lacks
AllMatches ==
  \A k \in DOMAIN calls :
    rules[calls[k].rule].match.matcher_name = "all" =>
      calls[k].matched = "true"

\* the `all` matcher matched an entry without origin, title and URL
AllMatchesWitness ==
  \E k \in DOMAIN calls :
    /\ rules[calls[k].rule].match = AllMatcher
    /\ calls[k].matched = "true"
    /\ yielded[calls[k].pos] = Entry("b", None, None, None, None)

(* --------------------------- the configuration ------------------------- *)
\* load_config has been called on the file and has returned or raised
AfterLoad == lpc # "load"

\* C17: the Config load_config returns from the file save_config wrote is
\* the Config save_config was given: the same rules in the same order, each
\* with the same name, matcher, processor and processor_config
RoundTrip ==
  (original.given /\ AfterLoad) =>
    /\ fatal = NoError
    /\ rules = original.rules

\* the document lacks a field Config or Rule requires
MissingRequired(f) ==
  \/ ~f.has_rules
  \/ \E i \in DOMAIN f.rules :
       \/ f.rules[i].name.style = "absent"
       \/ f.rules[i].match.kind = "absent"
       \/ f.rules[i].processor.style = "absent"

\* C18: load_config on a path without a file raises FileNotFoundError; on
\* a file that is no YAML document or lacks a required field it raises
\* ValueError with the path in the message; it raises nothing else, and
\* when it raises there is no Config: main is left before the first request
LoadFailuresClassified ==
  AfterLoad =>
    /\ ~file.exists <=> fatal.type = "FileNotFoundError"
    /\ (file.exists /\ (~file.wellformed \/ MissingRequired(file))) =>
         fatal = [type |-> "ValueError", names_file |-> TRUE]
    /\ fatal.type \in {None, "FileNotFoundError", "ValueError"}
    /\ fatal.type # None =>
         /\ fatal.names_file
         /\ rules = <<>>
         /\ lpc = "aborted"
         /\ gpc = "none"

\* load_config raised ValueError on a document whose only flaw is a rule
\* without `match`
LoadFailuresClassifiedWitness ==
  /\ fatal = [type |-> "ValueError", names_file |-> TRUE]
  /\ file.wellformed
  /\ Len(file.rules) = 1
  /\ file.rules[1].match.kind = "absent"
  /\ file.rules[1].name = Plain("r")
  /\ file.rules[1].processor = Plain("log_only")

\* the document has a rule whose processor is a name get_processor does
\* not know
UnknownProcessor(f) ==
  \E i \in DOMAIN f.rules :
    /\ construct_scalar(f.rules[i].processor).type = "str"
    /\ construct_scalar(f.rules[i].processor).text \notin PROCESSOR_MAPPING

\* C19: load_config raises on a document with a rule of an unknown
\* processor, and every rule of a Config it returns names a processor
\* get_processor resolves to a processor class
UnknownProcessorRejected ==
  AfterLoad =>
    /\ UnknownProcessor(file) => fatal.type = "ValueError"
    /\ fatal.type = None =>
         \A i \in DOMAIN rules :
           get_processor(rules[i].processor.project_id,
                         rules[i].processor_config,
                         "secret").processor.kind \in PROCESSOR_MAPPING

\* C20: no stream_id_in matcher of a Config load_config returns has an
\* empty stream_ids
StreamIdsNonEmpty ==
  (AfterLoad /\ fatal.type = None) =>
    \A i \in DOMAIN rules :
      rules[i].match.matcher_name = "stream_id_in" =>
        rules[i].match.stream_ids # <<>>

(* --------------------------- the log processor ------------------------- *)
\* C21: a call of the log processor writes one line, at the level the
\* processor is configured with (info when none is configured) and at one
\* of the four levels, with the entry's title and URL, absent or not; it
\* does not raise, so the loop logs no error for it
LogsOneLine ==
  \A k \in DOMAIN calls :
    (rules[calls[k].rule].processor.kind = "log"
       /\ calls[k].matched = "true") =>
      LET written == SelectSeq(calls[k].lines, LAMBDA l : l.kind = "entry")
          configured == rules[calls[k].rule].name
      IN  /\ calls[k].invoked = 1
          /\ ~calls[k].proc_raised
          /\ ErrorLines(calls[k]) = <<>>
          /\ calls[k].tasks = <<>>
          /\ Len(calls[k].lines) = 2
          /\ Len(written) = 1
          /\ written[1].level \in Levels
          /\ written[1].level =
               IF configured = None THEN "info" ELSE configured
          /\ written[1].title = yielded[calls[k].pos].title
          /\ written[1].url = yielded[calls[k].pos].canonical_url

\* an entry without title and URL was logged at info by a processor with no
\* level configured and at warning by one configured with warning
LogsOneLineWitness ==
  /\ \E k \in DOMAIN world.log :
       world.log[k] = Line("info", "entry",
                           Entry("b", None, None, None, None), None)
  /\ \E k \in DOMAIN world.log :
       world.log[k] = Line("warning", "entry",
                           Entry("b", None, None, None, None), None)
  /\ rules = << LogRule(None), LogRule("warning") >>

(* ------------------------------- the frame ----------------------------- *)
\* C22: no step of a run changes the rules, their matchers or their
\* processors, and a process_entry call, failing or not, leaves the entry
\* it was given as the source yielded it
NothingMutated ==
  [][ /\ rules' = rules
      /\ Len(calls') > Len(calls) =>
           /\ entry' = entry
           /\ entry' = yielded[calls'[Len(calls')].pos] ]_vars

\* a run that ended after a call that failed and a call whose processor
\* ran, on two entries
NothingMutatedWitness ==
  /\ lpc = "done"
  /\ Len(yielded) = 2
  /\ \E k \in DOMAIN calls : Failed(calls[k])
  /\ \E k \in DOMAIN calls : calls[k].invoked = 1 /\ ~Failed(calls[k])
  /\ world.tasks # <<>>

(* ----------------------- a failing entry source ------------------------ *)
\* C23: a request that raises, or whose response fails validation, is the
\* last one: the generator has raised and yields nothing more, the run
\* does not end normally, and when the exception has left process_entries
\* every entry of the pages before has been evaluated against every rule
\* and nothing else has; nothing but the entry source aborts the run
SourceFailureAborts ==
  /\ Len(requests) = Len(responses)
  /\ \A k \in DOMAIN responses :
       ~responses[k].ok => k = Len(responses) /\ gpc = "failed"
  /\ gpc = "failed" =>
       /\ responses # <<>>
       /\ ~responses[Len(responses)].ok
       /\ yielded = AllItems(SubSeq(responses, 1, Len(responses) - 1))
       /\ lpc # "done"
       /\ lpc = "aborted" =>
            CallPairs = ExpectedPairs(Len(yielded), Len(rules))
  /\ lpc = "aborted" => gpc = "failed"

\* the request for the second page failed; the run was aborted after the
\* two entries of the first page had been evaluated against two rules
SourceFailureAbortsWitness ==
  /\ lpc = "aborted"
  /\ Len(responses) = 2
  /\ ~responses[2].ok
  /\ Len(responses[1].items) = 2
  /\ Len(rules) = 2
  /\ Len(calls) = 4

\* the page keeps the fetch going: it has items and a token
Live(p) == p.ok /\ ~LastPage(p)

\* C24: fetch_saved_entries ends only after a page with no items or no
\* token: while every page so far has items and a token, the generator has
\* not ended and the run is not over, however many pages that is and even
\* when each page carries the token of the page before; every request after
\* the first carries the token of the page before it, repeated or not, and
\* between pages the generator holds that token for the next request
EndsOnlyAtLastPage ==
  /\ gpc = "ended" =>
       /\ responses # <<>>
       /\ responses[Len(responses)].ok
       /\ LastPage(responses[Len(responses)])
  /\ lpc = "done" => gpc = "ended"
  /\ (\A k \in DOMAIN responses : Live(responses[k])) =>
       /\ gpc \in {"request", "items"}
       /\ ~Over
  /\ \A k \in DOMAIN requests :
       k > 1 => /\ Live(responses[k - 1])
                /\ requests[k] = responses[k - 1].continuation
  /\ (gpc = "request" /\ responses # <<>>) =>
       /\ Live(responses[Len(responses)])
       /\ continuation = responses[Len(responses)].continuation

\* three pages with items and the same token: the second and the third
\* request carried that token, and the generator is about to ask again
EndsOnlyAtLastPageWitness ==
  /\ source = "endless"
  /\ Len(responses) = 3
  /\ \A k \in 1..3 : Live(responses[k]) /\ responses[k].continuation = Token(1)
  /\ requests = << None, Token(1), Token(1) >>
  /\ gpc = "request"
  /\ continuation = Token(1)
  /\ Len(yielded) >= 3
  /\ handed = <<>>
  /\ lpc = "next"

\* the entries whose inner loop gets any rule: all of them when `rules` is
\* a tuple, the first one only when it is an iterator
Covered ==
  IF iterable = "tuple" \/ Len(yielded) = 0 THEN Len(yielded) ELSE 1

\* C25: with `rules` a tuple every entry is evaluated against every rule;
\* with `rules` a single-pass iterator the calls are those of the first
\* entry with every rule and no others, while the later entries are still
\* taken from the stream one by one: when the run is over no yielded
\* entry is left untaken
SinglePassRules ==
  /\ IsPrefix(CallPairs, ExpectedPairs(Covered, Len(rules)))
  /\ iterable = "iterator" => \A k \in DOMAIN calls : calls[k].pos = 1
  /\ Over =>
       /\ CallPairs = ExpectedPairs(Covered, Len(rules))
       /\ handed = <<>>
       /\ yielded = AllItems(responses)

\* an iterator of two rules, a finished run of at least two entries, and
\* the two calls of the first entry only
SinglePassRulesWitness ==
  /\ iterable = "iterator"
  /\ lpc = "done"
  /\ Len(rules) = 2
  /\ Len(yielded) >= 2
  /\ CallPairs = << << 1, 1 >>, << 1, 2 >> >>

=============================================================================
